---- MODULE Spec2Model ----
(***************************************************************************)
(* Model of umamags/countries.                                             *)
(*                                                                         *)
(*   getYoutubeLinks.py : extract_text_from_pdf, parse_youtube_links, main *)
(*   getCountryData.py  : get_country_details, safe_filename,              *)
(*                        create_country_pdf, main                         *)
(*                                                                         *)
(* A Python str is a sequence of one-character strings.  The bullet glyph  *)
(* U+2022 is written "BULLET", a letter with a diacritic "LETTER_E_ACUTE". *)
(* Python indices are kept 0-based: lines[i] of the source is lines[i + 1] *)
(* here.                                                                   *)
(***************************************************************************)
EXTENDS Integers, Sequences, FiniteSets, TLC

VARIABLES
    pc,         \* position of the running script
    \* ---- getYoutubeLinks.parse_youtube_links
    text,       \* the argument: [none |-> BOOLEAN, s |-> str]
    lines,      \* text.splitlines()
    links,      \* the list being built, and the return value
    i,          \* outer loop index
    j,          \* inner loop index
    \* ---- getYoutubeLinks.main
    dirExists,  \* out_dir.exists()
    pdfs,       \* what find_pdfs yields, in order
    p,          \* number of pdfs the for loop has consumed
    results,    \* list of {"source", "link"}
    r,          \* number of results the deduplication loop has consumed
    seen,       \* set of (source, link)
    unique,     \* deduplicated rows
    csv,        \* rows written to csv_path after the header row
    stdout,     \* lines printed, the traceback of an uncaught exception included
    \* ---- getCountryData.main
    rows,       \* rows of countries.csv
    row,        \* number of rows the for loop has consumed
    apiCalls,   \* countries sent to client.chat.completions.create
    dirs,       \* directories made under OUTPUT_DIR
    records,    \* the data dicts handed to create_country_pdf
    files       \* documents built, in order: [row, path]

parserVars == <<text, lines, links, i, j>>
mainBVars == <<dirExists, pdfs, p, results, r, seen, unique, csv>>
mainAVars == <<rows, row, apiCalls, dirs, records, files>>
vars == <<pc, text, lines, links, i, j, dirExists, pdfs, p, results, r, seen,
          unique, csv, stdout, rows, row, apiCalls, dirs, records, files>>

-----------------------------------------------------------------------------
(* Strings *)

RECURSIVE Join(_, _)
Join(sep, ss) ==
    IF ss = <<>> THEN <<>>
    ELSE IF Len(ss) = 1 THEN ss[1]
    ELSE ss[1] \o sep \o Join(sep, Tail(ss))

Drop(s, n) == SubSeq(s, n + 1, Len(s))

\* str.isspace, on the characters of the model
Whitespace == {" ", "\t", "\n", "\r"}

\* the line boundaries of str.splitlines, on the characters of the model
LineBreaks == {"\n", "\r"}

RECURSIVE LStrip(_)
LStrip(s) ==
    IF s # <<>> /\ s[1] \in Whitespace THEN LStrip(Tail(s)) ELSE s

RECURSIVE RStrip(_)
RStrip(s) ==
    IF s # <<>> /\ s[Len(s)] \in Whitespace
    THEN RStrip(SubSeq(s, 1, Len(s) - 1))
    ELSE s

\* str.strip()
Strip(s) == RStrip(LStrip(s))

StartsWith(s, pre) == Len(s) >= Len(pre) /\ SubSeq(s, 1, Len(pre)) = pre

EndsWith(s, suf) ==
    Len(s) >= Len(suf) /\ SubSeq(s, Len(s) - Len(suf) + 1, Len(s)) = suf

\* str.splitlines(): "\r\n" is one boundary, and a final boundary opens no
\* further line
RECURSIVE SplitFrom(_, _, _, _)
SplitFrom(s, k, cur, acc) ==
    IF k > Len(s) THEN (IF cur = <<>> THEN acc ELSE Append(acc, cur))
    ELSE IF s[k] \in LineBreaks
         THEN SplitFrom(s,
                        IF s[k] = "\r" /\ k < Len(s) /\ s[k + 1] = "\n"
                        THEN k + 2 ELSE k + 1,
                        <<>>, Append(acc, cur))
         ELSE SplitFrom(s, k + 1, Append(cur, s[k]), acc)

SplitLines(s) == SplitFrom(s, 1, <<>>, <<>>)

\* re.IGNORECASE: characters match when their lower-case forms agree
LowerMap ==
    [Y |-> "y", O |-> "o", U |-> "u", T |-> "t", B |-> "b", E |-> "e",
     L |-> "l", I |-> "i", N |-> "n", K |-> "k", S |-> "s"]

Lower(c) == IF c \in DOMAIN LowerMap THEN LowerMap[c] ELSE c

LowerStr(s) == [k \in 1..Len(s) |-> Lower(s[k])]

-----------------------------------------------------------------------------
(* getYoutubeLinks.parse_youtube_links *)

None == [none |-> TRUE, s |-> <<>>]
Str(s) == [none |-> FALSE, s |-> s]

\* `not text`
FalsyEmptyOnly(t) == ~t.none /\ t.s = <<>>
Falsy(t) == t.none \/ t.s = <<>>

\* the literal part of the pattern
PatternLiteral == <<"y", "o", "u", "t", "u", "b", "e", " ", "l", "i", "n", "k", "s">>

\* pattern = re.compile(r"^\s*youtube links\s*:\s*$", re.IGNORECASE);
\* pattern.match(s).  Each \s* is greedy and what follows it is no
\* whitespace, so the match is decided left to right.
PatternMatchColonOptional(s) ==
    LET a == LStrip(s)
        b == LStrip(Drop(a, Len(PatternLiteral)))
    IN  /\ Len(a) >= Len(PatternLiteral)
        /\ LowerStr(SubSeq(a, 1, Len(PatternLiteral))) = PatternLiteral
        /\ \/ b = <<>>
           \/ b[1] = ":" /\ LStrip(Tail(b)) = <<>>
PatternMatch(s) ==
    LET a == LStrip(s)
        b == LStrip(Drop(a, Len(PatternLiteral)))
    IN  /\ Len(a) >= Len(PatternLiteral)
        /\ LowerStr(SubSeq(a, 1, Len(PatternLiteral))) = PatternLiteral
        /\ b # <<>>
        /\ b[1] = ":"
        /\ LStrip(Tail(b)) = <<>>

\* line == "" or line.endswith(":"), of the stripped line
BreaksOnBlankOnly(line) == line = <<>>
BreaksOnColonOnly(line) == EndsWith(line, <<":">>)
Breaks(line) == line = <<>> \/ EndsWith(line, <<":">>)

\* line.startswith("- ") or line.startswith("• ") or line.startswith("* ")
HasBulletAnyDash(line) ==
    \/ StartsWith(line, <<"-">>)
    \/ StartsWith(line, <<"BULLET", " ">>)
    \/ StartsWith(line, <<"*", " ">>)
HasBullet(line) ==
    \/ StartsWith(line, <<"-", " ">>)
    \/ StartsWith(line, <<"BULLET", " ">>)
    \/ StartsWith(line, <<"*", " ">>)

\* the line after `if line.startswith(...): line = line[2:].strip()`
Unbulleted(line) == IF HasBullet(line) THEN Strip(Drop(line, 2)) ELSE line

\* i = j, after the inner loop
ResumeAfter(jj) == jj + 1
Resume(jj) == jj

\* if not text: return [] ; lines = text.splitlines() ; links = [] ; i = 0
\* (None has no splitlines: AttributeError)
ParseEnter ==
    /\ pc = "parse"
    /\ IF Falsy(text)
       THEN /\ pc' = "returned"
            /\ links' = <<>>
            /\ UNCHANGED <<lines, i, j>>
       ELSE IF text.none
       THEN /\ pc' = "raised"
            /\ UNCHANGED <<lines, links, i, j>>
       ELSE /\ pc' = "outer"
            /\ lines' = SplitLines(text.s)
            /\ links' = <<>>
            /\ i' = 0
            /\ UNCHANGED j
    /\ UNCHANGED <<text, stdout>>
    /\ UNCHANGED mainBVars
    /\ UNCHANGED mainAVars

\* while i < len(lines): if pattern.match(lines[i].strip()): j = i + 1
OuterMatch ==
    /\ pc = "outer"
    /\ i < Len(lines)
    /\ PatternMatch(Strip(lines[i + 1]))
    /\ j' = i + 1
    /\ pc' = "inner"
    /\ UNCHANGED <<text, lines, links, i, stdout>>
    /\ UNCHANGED mainBVars
    /\ UNCHANGED mainAVars

\* else: i += 1
OuterSkip ==
    /\ pc = "outer"
    /\ i < Len(lines)
    /\ ~PatternMatch(Strip(lines[i + 1]))
    /\ i' = i + 1
    /\ UNCHANGED <<pc, text, lines, links, j, stdout>>
    /\ UNCHANGED mainBVars
    /\ UNCHANGED mainAVars

\* while j < len(lines): ... links.append(line) ; j += 1
InnerCollect ==
    /\ pc = "inner"
    /\ j < Len(lines)
    /\ ~Breaks(Strip(lines[j + 1]))
    /\ LET line == Unbulleted(Strip(lines[j + 1]))
       IN  links' = IF line # <<>> THEN Append(links, line) ELSE links
    /\ j' = j + 1
    /\ UNCHANGED <<pc, text, lines, i, stdout>>
    /\ UNCHANGED mainBVars
    /\ UNCHANGED mainAVars

\* the inner loop ends (break, or j = len(lines)) ; i = j
InnerEnd ==
    /\ pc = "inner"
    /\ IF j < Len(lines) THEN Breaks(Strip(lines[j + 1])) ELSE TRUE
    /\ i' = Resume(j)
    /\ pc' = "outer"
    /\ UNCHANGED <<text, lines, links, j, stdout>>
    /\ UNCHANGED mainBVars
    /\ UNCHANGED mainAVars

\* return links
ParseReturn ==
    /\ pc = "outer"
    /\ i >= Len(lines)
    /\ pc' = "returned"
    /\ UNCHANGED <<text, lines, links, i, j, stdout>>
    /\ UNCHANGED mainBVars
    /\ UNCHANGED mainAVars

ParseNext ==
    \/ ParseEnter
    \/ OuterMatch
    \/ OuterSkip
    \/ InnerCollect
    \/ InnerEnd
    \/ ParseReturn

-----------------------------------------------------------------------------
(* Inputs of parse_youtube_links *)

MaxLines == 3

Header == <<"Y", "o", "u", "t", "u", "b", "e", " ", "L", "i", "n", "k", "s", ":">>
HeaderSpaced ==
    <<" ", "Y", "O", "U", "T", "U", "B", "E", " ", "l", "i", "n", "k", "s", " ", ":", "\t">>
HeaderNoColon == <<"Y", "o", "u", "t", "u", "b", "e", " ", "L", "i", "n", "k", "s">>
HeaderInside ==
    <<"m", "y", " ", "Y", "o", "u", "t", "u", "b", "e", " ", "L", "i", "n", "k", "s", ":">>
HeaderThenText ==
    <<"Y", "o", "u", "t", "u", "b", "e", " ", "L", "i", "n", "k", "s", ":", " ", "x">>
Other == <<"O", "t", "h", "e", "r", ":">>

\* headers and near-headers, items with and without bullets (one padded, one
\* ending with a carriage return), blank and colon-terminated lines
LineSamples ==
    { Header, HeaderSpaced, HeaderNoColon, HeaderInside, HeaderThenText,
      <<"-", " ", "a">>, <<"BULLET", " ", "b">>, <<"*", " ", "c">>, <<"d">>,
      <<"-", "e">>, <<" ", "-", " ", " ", "a", " ">>, <<"d", "\r">>,
      <<>>, <<" ">>, Other, <<"x", ":", " ">> }

\* the scenarios of the specification's testable properties
ScenarioEndToEnd ==
    Join(<<"\n">>,
         << Header, <<"-", " ", "h", "t", "t", "p", "s", ":", "/", "/", "a">>,
            <<"-", " ", "h", "t", "t", "p", "s", ":", "/", "/", "b">>, <<>>,
            Other, <<".", ".", ".">> >>)

ScenarioBullets ==
    Join(<<"\n">>,
         << Header, <<"-", " ", "a">>, <<"BULLET", " ", "b">>, <<"*", " ", "c">>,
            <<"d">> >>)

\* a header line that ends the section before it
ScenarioAdjacentSections ==
    Join(<<"\n">>,
         << Header, <<"-", " ", "a">>, HeaderSpaced, <<"-", " ", "b">>, <<>>,
            <<"d">> >>)

\* a section ended by another section's header
ScenarioColonTerminated ==
    Join(<<"\n">>, << Header, <<"-", " ", "a">>, Other, <<"-", "e">> >>)

SeqsUpTo(S, n) == UNION {[1..k -> S] : k \in 0..n}

Texts ==
    {None, Str(ScenarioEndToEnd), Str(ScenarioBullets),
     Str(ScenarioAdjacentSections), Str(ScenarioColonTerminated)}
    \cup {Str(Join(<<"\n">>, ls) \o tail) :
            ls \in SeqsUpTo(LineSamples, MaxLines), tail \in {<<>>, <<"\n">>}}

ParseInit ==
    /\ pc = "parse"
    /\ text \in Texts
    /\ lines = <<>>
    /\ links = <<>>
    /\ i = 0
    /\ j = 0
    /\ dirExists = TRUE
    /\ pdfs = <<>>
    /\ p = 0
    /\ results = <<>>
    /\ r = 0
    /\ seen = {}
    /\ unique = <<>>
    /\ csv = <<>>
    /\ stdout = <<>>
    /\ rows = <<>>
    /\ row = 0
    /\ apiCalls = <<>>
    /\ dirs = {}
    /\ records = <<>>
    /\ files = <<>>

\* parse_youtube_links applied to one text
SpecParse == ParseInit /\ [][ParseNext]_vars

-----------------------------------------------------------------------------
(* getYoutubeLinks.extract_text_from_pdf, find_pdfs, main *)

\* A document under out_dir: PdfReader(str(path)) raises or gives the pages;
\* page.extract_text() raises or returns a str or None.
Page(t) == [raises |-> FALSE, text |-> t]
PageRaises == [raises |-> TRUE, text |-> None]

\* parts = [] ; for page in reader.pages: try: text = page.extract_text()
\* except Exception: text = None ; if text: parts.append(text)
RECURSIVE Parts(_)
Parts(pages) ==
    IF pages = <<>> THEN <<>>
    ELSE LET page == Head(pages)
             t == IF page.raises THEN None ELSE page.text
         IN  (IF Falsy(t) THEN <<>> ELSE <<t.s>>) \o Parts(Tail(pages))

\* return "\n".join(parts)
ExtractText(doc) == Join(<<"\n">>, Parts(doc.pages))

\* key = (r["source"], r["link"])
DedupKeyLinkOnly(res) == <<res.link>>
DedupKey(res) == <<res.source, res.link>>

\* if not out_dir.exists(): print(...) ; sys.exit(2) ; results = []
MainStart ==
    /\ pc = "main"
    /\ IF dirExists
       THEN /\ pc' = "pdfs"
            /\ results' = <<>>
            /\ UNCHANGED stdout
       ELSE /\ pc' = "exit2"
            /\ stdout' = Append(stdout, [msg |-> "Directory not found"])
            /\ UNCHANGED results
    /\ UNCHANGED <<dirExists, pdfs, p, r, seen, unique, csv>>
    /\ UNCHANGED parserVars
    /\ UNCHANGED mainAVars

\* extract_text_from_pdf(pdf) raises: print(f"Skipping {pdf} ...") ; continue
ExtractFailsAborts ==
    /\ pc = "pdfs"
    /\ p < Len(pdfs)
    /\ ~pdfs[p + 1].opens
    /\ pc' = "crashed"
    /\ UNCHANGED <<dirExists, pdfs, p, results, r, seen, unique, csv, stdout>>
    /\ UNCHANGED parserVars
    /\ UNCHANGED mainAVars
ExtractFails ==
    /\ pc = "pdfs"
    /\ p < Len(pdfs)
    /\ ~pdfs[p + 1].opens
    /\ stdout' = Append(stdout, [msg |-> "Skipping", pdf |-> pdfs[p + 1].path])
    /\ p' = p + 1
    /\ UNCHANGED <<pc, dirExists, pdfs, results, r, seen, unique, csv>>
    /\ UNCHANGED parserVars
    /\ UNCHANGED mainAVars

\* text = extract_text_from_pdf(pdf) ; parse_youtube_links(text) is entered
ExtractOk ==
    /\ pc = "pdfs"
    /\ p < Len(pdfs)
    /\ pdfs[p + 1].opens
    /\ text' = Str(ExtractText(pdfs[p + 1]))
    /\ pc' = "parse"
    /\ UNCHANGED <<lines, links, i, j, stdout>>
    /\ UNCHANGED mainBVars
    /\ UNCHANGED mainAVars

\* links = parse_youtube_links(text) has returned ;
\* for l in links: results.append({"source": str(pdf), "link": l})
AppendLinks ==
    /\ pc = "returned"
    /\ results' = results \o
          [k \in 1..Len(links) |-> [source |-> pdfs[p + 1].path, link |-> links[k]]]
    /\ p' = p + 1
    /\ pc' = "pdfs"
    /\ UNCHANGED <<dirExists, pdfs, r, seen, unique, csv, stdout>>
    /\ UNCHANGED parserVars
    /\ UNCHANGED mainAVars

\* the for loop over find_pdfs ends ; seen = set() ; unique = []
PdfsDone ==
    /\ pc = "pdfs"
    /\ p >= Len(pdfs)
    /\ seen' = {}
    /\ unique' = <<>>
    /\ r' = 0
    /\ pc' = "dedup"
    /\ UNCHANGED <<dirExists, pdfs, p, results, csv, stdout>>
    /\ UNCHANGED parserVars
    /\ UNCHANGED mainAVars

\* for r in results: key = ... ; if key not in seen: seen.add(key) ;
\* unique.append(r)
DedupStep ==
    /\ pc = "dedup"
    /\ r < Len(results)
    /\ LET key == DedupKey(results[r + 1])
       IN  IF key \notin seen
           THEN /\ seen' = seen \cup {key}
                /\ unique' = Append(unique, results[r + 1])
           ELSE UNCHANGED <<seen, unique>>
    /\ r' = r + 1
    /\ UNCHANGED <<pc, dirExists, pdfs, p, results, csv, stdout>>
    /\ UNCHANGED parserVars
    /\ UNCHANGED mainAVars

\* writer.writeheader() ; for r in unique: writer.writerow(r) ; print(...)
WriteCsv ==
    /\ pc = "dedup"
    /\ r >= Len(results)
    /\ csv' = unique
    /\ stdout' = Append(stdout, [msg |-> "Wrote rows", n |-> Len(unique)])
    /\ pc' = "done"
    /\ UNCHANGED <<dirExists, pdfs, p, results, r, seen, unique>>
    /\ UNCHANGED parserVars
    /\ UNCHANGED mainAVars

MainNext ==
    \/ MainStart
    \/ ExtractFails
    \/ ExtractOk
    \/ ParseEnter
    \/ OuterMatch
    \/ OuterSkip
    \/ InnerCollect
    \/ InnerEnd
    \/ ParseReturn
    \/ AppendLinks
    \/ PdfsDone
    \/ DedupStep
    \/ WriteCsv

-----------------------------------------------------------------------------
(* Inputs of getYoutubeLinks.main *)

MaxDocs == 3

LinkX == <<"x">>
LinkY == <<"y">>
LinkZ == <<"z">>

\* PdfReader raises (or no reader is installed)
DocUnreadable == [opens |-> FALSE, pages |-> <<>>]

\* no page
DocEmpty == [opens |-> TRUE, pages |-> <<>>]

\* one page, the link x twice
DocRepeats ==
    [opens |-> TRUE,
     pages |-> << Page(Str(Join(<<"\n">>,
                    << Header, <<"-", " ">> \o LinkX, <<"-", " ">> \o LinkY,
                       <<"-", " ">> \o LinkX >>) \o <<"\n">>)) >>]

\* the section runs over a page break
DocTwoPages ==
    [opens |-> TRUE,
     pages |-> << Page(Str(Join(<<"\n">>,
                    << <<"P", "e", "r", "u">>, Header, <<"-", " ">> \o LinkX >>))),
                  Page(Str(Join(<<"\n">>,
                    << <<"-", " ">> \o LinkZ, <<>>, Other, LinkY >>))) >>]

\* a page that raises, a page with no text, a page with the section
DocBadPage ==
    [opens |-> TRUE,
     pages |-> << PageRaises, Page(None), Page(Str(<<>>)),
                  Page(Str(Join(<<"\n">>, << Header, <<"-", " ">> \o LinkX >>))) >>]

\* links under no header
DocNoHeader ==
    [opens |-> TRUE,
     pages |-> << Page(Str(Join(<<"\n">>,
                    << HeaderNoColon, <<"-", " ">> \o LinkX, LinkY >>))) >>]

DocSamples ==
    {DocUnreadable, DocEmpty, DocRepeats, DocTwoPages, DocBadPage, DocNoHeader}

\* find_pdfs yields distinct paths; the k-th is named k
Pdfs ==
    {[k \in 1..Len(ds) |->
        [path |-> k, opens |-> ds[k].opens, pages |-> ds[k].pages]] :
     ds \in SeqsUpTo(DocSamples, MaxDocs)}

MainInit ==
    /\ pc = "main"
    /\ dirExists \in BOOLEAN
    /\ pdfs \in (IF dirExists THEN Pdfs ELSE {<<>>})
    /\ text = Str(<<>>)
    /\ lines = <<>>
    /\ links = <<>>
    /\ i = 0
    /\ j = 0
    /\ p = 0
    /\ results = <<>>
    /\ r = 0
    /\ seen = {}
    /\ unique = <<>>
    /\ csv = <<>>
    /\ stdout = <<>>
    /\ rows = <<>>
    /\ row = 0
    /\ apiCalls = <<>>
    /\ dirs = {}
    /\ records = <<>>
    /\ files = <<>>

\* python getYoutubeLinks.py
SpecLinks == MainInit /\ [][MainNext]_vars

-----------------------------------------------------------------------------
(* getCountryData.get_country_details, safe_filename, create_country_pdf, main *)

\* a cell of the DataFrame: a str, or NaN for an empty field
NaN == [nan |-> TRUE, s |-> <<>>]
Cell(s) == [nan |-> FALSE, s |-> s]

\* str(cell)
PyStr(cell) == IF cell.nan THEN <<"n", "a", "n">> ELSE cell.s

UpperMap == [y |-> "Y", e |-> "E", s |-> "S", n |-> "N", a |-> "A"]

\* str.upper()
Upper(s) == [k \in 1..Len(s) |-> IF s[k] \in DOMAIN UpperMap THEN UpperMap[s[k]] ELSE s[k]]

\* str.isalnum, on the characters of the model
Alnum ==
    {"P", "e", "r", "u", "A", "B", "S", "t", "X", "s", "i", "a", "n", "U",
     "k", "o", "w", "c", "y", "Y", "N", "LETTER_E_ACUTE", "p", "d", "f", "1"}

\* c if c.isalnum() or c in " -_." else "_"
SafeChar(c) == IF c \in Alnum \/ c \in {" ", "-", "_", "."} THEN c ELSE "_"

\* "".join(... for c in str(name)).strip() or "unnamed"
safe_filename(name) ==
    LET t == Strip([k \in 1..Len(name) |-> SafeChar(name[k])])
    IN  IF t = <<>> THEN <<"u", "n", "n", "a", "m", "e", "d">> ELSE t

OUTPUT_DIR == <<"o", "u", "t", "p", "u", "t">>

\* flag = str(row.get("flag", "N")).strip().upper()
FlagCaseSensitive(rw) == Strip(PyStr(rw.flag))
Flag(rw) == Upper(Strip(PyStr(rw.flag)))

\* country = str(row.get("country", "")).strip()
Country(rw) == Strip(PyStr(rw.country))

\* continent = str(row.get("continent", "Unknown")).strip() or "Unknown"
Continent(rw) ==
    LET t == Strip(PyStr(rw.continent))
    IN  IF t = <<>> THEN <<"U", "n", "k", "n", "o", "w", "n">> ELSE t

\* continent_dir = os.path.join(OUTPUT_DIR, safe_filename(continent))
ContinentDir(rw) == <<OUTPUT_DIR, safe_filename(Continent(rw))>>

\* filename = safe_filename(data.get("country", "country")) + ".pdf" ;
\* file_path = os.path.join(output_dir, filename)
FilePath(data, output_dir) ==
    Append(output_dir,
           safe_filename(IF data.hasCountry THEN data.country
                         ELSE <<"c", "o", "u", "n", "t", "r", "y">>)
              \o <<".", "p", "d", "f">>)

\* What get_country_details and create_country_pdf can do for one country:
\* the request raises; json.loads raises on the unwrapped text; json.loads
\* returns something that is no dict (data["continent"] = ... raises); the
\* dict does not render (doc.build or a join raises); or a document is built.
\* The fence unwrapping of lines 72-74 only decides whether json.loads raises.
NameSamples(country) ==
    {country, <<"P", "LETTER_E_ACUTE", ".", "'", "1">>, <<" ", "/">>, <<"\t">>}

Outcomes(country) ==
    {[kind |-> "request_error"], [kind |-> "json_error"], [kind |-> "not_a_dict"]}
    \cup {[kind |-> "dict", hasCountry |-> TRUE, country |-> n, renders |-> b] :
            n \in NameSamples(country), b \in BOOLEAN}
    \cup {[kind |-> "dict", hasCountry |-> FALSE, country |-> <<>>, renders |-> TRUE]}

Builds(o) == o.kind = "dict" /\ o.renders

\* if flag != "Y": print(f"Skipping ...") ; continue
RowSkipped ==
    /\ pc = "rows"
    /\ row < Len(rows)
    /\ Flag(rows[row + 1]) # <<"Y">>
    /\ stdout' = Append(stdout, [msg |-> "Skipping", country |-> Country(rows[row + 1])])
    /\ row' = row + 1
    /\ UNCHANGED <<pc, rows, apiCalls, dirs, records, files>>
    /\ UNCHANGED parserVars
    /\ UNCHANGED mainBVars

\* os.makedirs(continent_dir) ; data = get_country_details(country) ;
\* data["continent"] = continent ; create_country_pdf(data, continent_dir)
RowDocument ==
    /\ pc = "rows"
    /\ row < Len(rows)
    /\ Flag(rows[row + 1]) = <<"Y">>
    /\ \E o \in Outcomes(Country(rows[row + 1])) :
          /\ Builds(o)
          /\ LET data == [hasCountry |-> o.hasCountry, country |-> o.country,
                          continent |-> Continent(rows[row + 1])]
             IN  /\ records' = Append(records, data)
                 /\ files' = Append(files,
                        [row |-> row + 1,
                         path |-> FilePath(data, ContinentDir(rows[row + 1]))])
    /\ dirs' = dirs \cup {ContinentDir(rows[row + 1])}
    /\ apiCalls' = Append(apiCalls, Country(rows[row + 1]))
    /\ stdout' = stdout \o << [msg |-> "Processing", country |-> Country(rows[row + 1])],
                              [msg |-> "Created PDF", country |-> Country(rows[row + 1])] >>
    /\ row' = row + 1
    /\ UNCHANGED <<pc, rows>>
    /\ UNCHANGED parserVars
    /\ UNCHANGED mainBVars

\* the same, when get_country_details or create_country_pdf raises: main has
\* no try around them, and the script ends with the traceback
RowRaises ==
    /\ pc = "rows"
    /\ row < Len(rows)
    /\ Flag(rows[row + 1]) = <<"Y">>
    /\ \E o \in Outcomes(Country(rows[row + 1])) :
          /\ ~Builds(o)
          /\ stdout' = stdout \o
                << [msg |-> "Processing", country |-> Country(rows[row + 1])],
                   [msg |-> "Traceback", error |-> o.kind] >>
    /\ dirs' = dirs \cup {ContinentDir(rows[row + 1])}
    /\ apiCalls' = Append(apiCalls, Country(rows[row + 1]))
    /\ pc' = "crashed"
    /\ UNCHANGED <<rows, row, records, files>>
    /\ UNCHANGED parserVars
    /\ UNCHANGED mainBVars

\* the for loop over df.iterrows() ends
RowsDone ==
    /\ pc = "rows"
    /\ row >= Len(rows)
    /\ pc' = "done"
    /\ UNCHANGED stdout
    /\ UNCHANGED mainAVars
    /\ UNCHANGED parserVars
    /\ UNCHANGED mainBVars

CountryNext ==
    \/ RowSkipped
    \/ RowDocument
    \/ RowRaises
    \/ RowsDone

-----------------------------------------------------------------------------
(* Inputs of getCountryData.main *)

MaxRows == 3

Peru == <<"P", "e", "r", "u">>
Asia == <<"A", "s", "i", "a">>

RowSamples ==
    { [flag |-> Cell(<<"Y">>), country |-> Cell(Peru), continent |-> Cell(Asia)],
      [flag |-> Cell(<<" ", "y", "\t">>), country |-> Cell(<<"A", "/", "B">>),
       continent |-> Cell(<<" ">>)],
      [flag |-> Cell(<<"Y">>), country |-> Cell(<<" ", "S", "t", ".", "X">>),
       continent |-> NaN],
      [flag |-> Cell(<<"N">>), country |-> Cell(Peru), continent |-> Cell(Asia)],
      [flag |-> NaN, country |-> Cell(<<"A", "/", "B">>), continent |-> Cell(Asia)],
      [flag |-> Cell(<<"Y", "e", "s">>), country |-> Cell(Peru), continent |-> NaN] }

CountryInit ==
    /\ pc = "rows"
    /\ rows \in SeqsUpTo(RowSamples, MaxRows)
    /\ row = 0
    /\ apiCalls = <<>>
    /\ dirs = {<<OUTPUT_DIR>>}
    /\ records = <<>>
    /\ files = <<>>
    /\ stdout = <<>>
    /\ text = Str(<<>>)
    /\ lines = <<>>
    /\ links = <<>>
    /\ i = 0
    /\ j = 0
    /\ dirExists = TRUE
    /\ pdfs = <<>>
    /\ p = 0
    /\ results = <<>>
    /\ r = 0
    /\ seen = {}
    /\ unique = <<>>
    /\ csv = <<>>

\* python getCountryData.py
SpecCountries == CountryInit /\ [][CountryNext]_vars

-----------------------------------------------------------------------------
(* Properties of parse_youtube_links *)

Range(s) == {s[k] : k \in 1..Len(s)}

RECURSIVE Concat(_)
Concat(ss) == IF ss = <<>> THEN <<>> ELSE Head(ss) \o Concat(Tail(ss))

BulletMarkers == {"-", "BULLET", "*"}

\* a header line as the source decides it: the trimmed line is the label in
\* any letter case, then optional whitespace, then a colon
C2_IsHeader(line) ==
    LET t == Strip(line)
        n == Len(PatternLiteral)
    IN  /\ Len(t) > n
        /\ \A k \in 1..n : Lower(t[k]) = PatternLiteral[k]
        /\ t[Len(t)] = ":"
        /\ \A k \in (n + 1)..(Len(t) - 1) : t[k] \in Whitespace

\* a header line as C2 words it: the colon is optional
C2_ClaimedHeader(line) ==
    LET t == Strip(line)
        n == Len(PatternLiteral)
    IN  /\ Len(t) >= n
        /\ \A k \in 1..n : Lower(t[k]) = PatternLiteral[k]
        /\ \/ Len(t) = n
           \/ /\ t[Len(t)] = ":"
              /\ \A k \in (n + 1)..(Len(t) - 1) : t[k] \in Whitespace

\* a terminator: trimmed, the line is empty or ends with a colon
C4_IsTerminator(line) ==
    LET t == Strip(line) IN Len(t) = 0 \/ t[Len(t)] = ":"

\* the item a collected line yields
C5_Item(line) ==
    LET t == Strip(line)
    IN  IF Len(t) >= 2 /\ t[1] \in BulletMarkers /\ t[2] = " "
        THEN Strip(SubSeq(t, 3, Len(t)))
        ELSE t

\* the number of lines after line h (1-based) and before the first terminator
SectionLen(h) ==
    CHOOSE n \in 0..(Len(lines) - h) :
        /\ \A k \in 1..n : ~C4_IsTerminator(lines[h + k])
        /\ h + n = Len(lines) \/ C4_IsTerminator(lines[h + n + 1])

SectionItems(h) == [k \in 1..SectionLen(h) |-> C5_Item(lines[h + k])]

ExpectedLinks ==
    Concat([h \in 1..Len(lines) |->
              IF C2_IsHeader(lines[h]) THEN SectionItems(h) ELSE <<>>])

\* the two-character bullet prefix removed and nothing else done
C1_PrefixRemoved(line) ==
    IF Len(line) >= 2 /\ line[1] \in BulletMarkers /\ line[2] = " "
    THEN Drop(line, 2)
    ELSE line

\* C1 as stated: a line exactly "Youtube Links:", then N non-empty lines none
\* ending with a colon, then an empty line or the end of the input: the
\* returned list is those N lines, in order, each without its two-character
\* bullet prefix.
C1_Original ==
    (pc = "returned" /\ ~Falsy(text)) =>
        \A h \in 1..Len(lines) : \A n \in 0..(Len(lines) - h) :
            ( /\ lines[h] = Header
              /\ \A k \in 1..n :
                    /\ lines[h + k] # <<>>
                    /\ lines[h + k][Len(lines[h + k])] # ":"
              /\ h + n = Len(lines) \/ lines[h + n + 1] = <<>> )
            => links = [k \in 1..n |-> C1_PrefixRemoved(lines[h + k])]

\* C1 (amended): when parse_youtube_links returns, the list is, for each
\* header line in document order, the lines that follow it up to the first
\* line that is blank or colon-terminated once trimmed (or the end of the
\* input), each trimmed, without its two-character bullet prefix and trimmed
\* again.  A header followed by N such lines contributes exactly those N
\* items, in order, as one contiguous run; it is the whole list when the text
\* holds no other header.
C1_SectionsInOrder ==
    (pc = "returned" /\ ~Falsy(text)) => links = ExpectedLinks

C1_Witness ==
    /\ pc = "returned"
    /\ text = Str(ScenarioEndToEnd)
    /\ links = << <<"h", "t", "t", "p", "s", ":", "/", "/", "a">>,
                  <<"h", "t", "t", "p", "s", ":", "/", "/", "b">> >>

\* C2 as stated: a line is examined as a header exactly when its trimmed form
\* is the label in any letter case, optionally followed by a colon.
C2_Original ==
    [][(pc = "outer" /\ i < Len(lines))
         => ((pc' = "inner") <=> C2_ClaimedHeader(lines[i + 1]))]_vars

\* C2 (amended): a line is treated as a section header if and only if its
\* trimmed form is the label "Youtube Links" in any letter case followed by
\* optional whitespace and a colon; the colon is required, and a line that
\* holds the label inside longer text is no header.
C2_HeaderNeedsColon ==
    [][(pc = "outer" /\ i < Len(lines))
         => ((pc' = "inner") <=> C2_IsHeader(lines[i + 1]))]_vars

C2_Witness ==
    /\ pc = "inner"
    /\ i = 1
    /\ j = 2
    /\ lines[1] = HeaderNoColon
    /\ lines[2] = HeaderSpaced

\* C3 as stated: after a section, scanning resumes just after the terminator
\* line.
C3_Original ==
    [][(pc = "inner" /\ pc' = "outer" /\ j < Len(lines)) => i' = j + 1]_vars

\* a header line that ended the section before it, and has an item after it
C3_HeaderEndsSection(h) ==
    /\ h >= 2
    /\ h < Len(lines)
    /\ C2_IsHeader(lines[h])
    /\ ~C4_IsTerminator(lines[h + 1])
    /\ \E g \in 1..(h - 1) :
          /\ C2_IsHeader(lines[g])
          /\ \A k \in (g + 1)..(h - 1) : ~C4_IsTerminator(lines[k])

\* C3 (amended): after a section's items have been collected, scanning for
\* further header matches resumes at the line that ended the section, so the
\* terminator line is itself examined as a possible header: a header line
\* that ends one section opens the next, and its items are returned.
C3_ResumesAtTerminator ==
    /\ [][(pc = "inner" /\ pc' = "outer") => i' = j]_vars
    /\ [](pc = "returned" =>
            \A h \in 1..Len(lines) :
                C3_HeaderEndsSection(h) => C5_Item(lines[h + 1]) \in Range(links))

C3_Witness ==
    /\ pc = "returned"
    /\ text = Str(ScenarioAdjacentSections)
    /\ links = << <<"a">>, <<"b">> >>

\* C4: collection of a section's items stops at the first following line
\* that, once trimmed, is empty or ends with a colon; that line is never
\* emitted, and a line is emitted only while it lies after a header match and
\* before the first terminator that follows that header.
C4_StopsAtTerminator ==
    /\ [][(pc = "inner" /\ j < Len(lines) /\ C4_IsTerminator(lines[j + 1]))
            => (pc' = "outer" /\ links' = links)]_vars
    /\ [][Len(links') > Len(links)
            => /\ pc = "inner"
               /\ j < Len(lines)
               /\ C2_IsHeader(lines[i + 1])
               /\ \A k \in (i + 1)..j : ~C4_IsTerminator(lines[k + 1])]_vars

C4_Witness ==
    /\ pc = "returned"
    /\ text = Str(ScenarioColonTerminated)
    /\ links = << <<"a">> >>

\* C5: every collected line emits one item: the trimmed line, without its
\* bullet marker exactly when the trimmed line starts with "-", the bullet
\* glyph or "*" followed by a space; a bare marker is left in place.  The
\* items "- a", "(bullet) b", "* c", "d" yield a, b, c, d.
C5_BulletStripping ==
    /\ [][(pc = "inner" /\ j' = j + 1)
            => links' = Append(links, C5_Item(lines[j + 1]))]_vars
    /\ []((pc = "returned" /\ text = Str(ScenarioBullets))
            => links = << <<"a">>, <<"b">>, <<"c">>, <<"d">> >>)

C5_Witness ==
    /\ pc = "returned"
    /\ text = Str(ScenarioBullets)
    /\ links = << <<"a">>, <<"b">>, <<"c">>, <<"d">> >>

\* C10: parse_youtube_links never raises, and returns the empty list when
\* the text is absent (None), empty or holds no header line.
C10_NoHeaderNoLinks ==
    /\ pc # "raised"
    /\ (pc = "returned"
          /\ (text.none \/ Len(text.s) = 0
                \/ \A k \in 1..Len(lines) : ~C2_IsHeader(lines[k])))
       => links = <<>>

C10_Witness ==
    /\ pc = "returned"
    /\ lines = <<HeaderNoColon, <<"BULLET", " ", "b">>, HeaderInside>>
    /\ links = <<>>

-----------------------------------------------------------------------------
(* Properties of getYoutubeLinks.main *)

\* the place of the first occurrence of x in s
FirstIndex(s, x) == CHOOSE k \in 1..Len(s) : s[k] = x /\ \A m \in 1..(k - 1) : s[m] # x

\* C6: the rows written hold no (source, link) pair twice, hold every
\* extracted pair exactly once, in the order in which the pairs were first
\* seen, and the same link extracted from two documents gives two rows.
C6_RowsDeduplicated ==
    pc = "done" =>
        /\ \A a, b \in 1..Len(csv) :
              (csv[a].source = csv[b].source /\ csv[a].link = csv[b].link) => a = b
        /\ Range(csv) = Range(results)
        /\ \A x \in Range(results) : Cardinality({k \in 1..Len(csv) : csv[k] = x}) = 1
        /\ \A a, b \in 1..Len(csv) :
              a < b => FirstIndex(results, csv[a]) < FirstIndex(results, csv[b])
        /\ \A x, y \in Range(results) :
              (x.link = y.link /\ x.source # y.source)
                 => \E a, b \in 1..Len(csv) : a # b /\ csv[a] = x /\ csv[b] = y

C6_Witness ==
    /\ pc = "done"
    /\ Len(csv) < Len(results)
    /\ \E a, b \in 1..Len(csv) :
          csv[a].link = csv[b].link /\ csv[a].source # csv[b].source

\* the links each sample document holds under its header
DocLinks(doc) ==
    LET d == [opens |-> doc.opens, pages |-> doc.pages]
    IN  CASE d = DocRepeats -> {LinkX, LinkY}
          [] d = DocTwoPages -> {LinkX, LinkZ}
          [] d = DocBadPage -> {LinkX}
          [] OTHER -> {}

\* C7: the run never stops on a document whose text extraction fails; when
\* it ends, such a document has no row and one report, and every readable
\* document has a row for each of its links, wherever the unreadable ones
\* fall in the scan order.
C7_UnreadableSkipped ==
    /\ pc # "crashed"
    /\ pc = "done" =>
          \A k \in 1..Len(pdfs) :
              IF pdfs[k].opens
              THEN {row_.link : row_ \in {x \in Range(csv) : x.source = pdfs[k].path}}
                      = DocLinks(pdfs[k])
              ELSE /\ \A x \in Range(csv) : x.source # pdfs[k].path
                   /\ Cardinality({m \in 1..Len(stdout) :
                          stdout[m] = [msg |-> "Skipping", pdf |-> pdfs[k].path]}) = 1

C7_Witness ==
    /\ pc = "done"
    /\ Len(pdfs) = 3
    /\ ~pdfs[1].opens
    /\ ~pdfs[3].opens
    /\ DocLinks(pdfs[2]) = {LinkX, LinkZ}
    /\ Len(csv) = 2

-----------------------------------------------------------------------------
(* Properties of getCountryData.main *)

\* a row is included when its flag, trimmed and compared without case, is Y
C9_Included(rw) ==
    ~rw.flag.nan /\ Strip(rw.flag.s) \in {<<"Y">>, <<"y">>}

IncludedRows == {k \in 1..Len(rows) : C9_Included(rows[k])}

\* C8 as stated: a failure while processing one row is caught and processing
\* goes on, so when the script ends every included row other than the one
\* that failed has its document.
C8_LaterRowsGetDocument ==
    pc \in {"done", "crashed"} =>
        \A k \in IncludedRows :
            ~(pc = "crashed" /\ k = row + 1) => \E f \in Range(files) : f.row = k

\* the k-th smallest member of a set of numbers
RECURSIVE Sorted(_)
Sorted(S) ==
    IF S = {} THEN <<>>
    ELSE LET m == CHOOSE x \in S : \A y \in S : x <= y
         IN  <<m>> \o Sorted(S \ {m})

\* retained characters kept, the others replaced by "_", the result trimmed,
\* "unnamed" when nothing is left
C9_Sanitized(name) ==
    LET kept == [k \in 1..Len(name) |->
                    IF name[k] \in Alnum \cup {" ", "-", "_", "."}
                    THEN name[k] ELSE "_"]
        t == Strip(kept)
    IN  IF Len(t) = 0 THEN <<"u", "n", "n", "a", "m", "e", "d">> ELSE t

C9_Category(rw) ==
    IF rw.continent.nan THEN <<"n", "a", "n">>
    ELSE IF Strip(rw.continent.s) = <<>> THEN <<"U", "n", "k", "n", "o", "w", "n">>
    ELSE Strip(rw.continent.s)

====
